---- MODULE Spec2Model ----
(***************************************************************************)
(* Model of the audit aggregation engine of app.py: run_axe_test (the      *)
(* in-page rule engine invoker with its retry loop and browser session),   *)
(* calculate_component_scores, calculate_weighted_score,                   *)
(* generate_recommendations, run_audit and the "Start Audit" batch loop.   *)
(*                                                                         *)
(* Scores are fixed-point numbers in TENTHS of a point (93.0 is 930), the  *)
(* nominal weights 0.4/0.3/0.3 are the integers 4/3/3 (tenths).  An        *)
(* optional value (Python None or a value) is a sequence of length 0 or 1. *)
(* A string (an exception message) is a sequence of characters.            *)
(***************************************************************************)
EXTENDS Integers, Sequences, FiniteSets, TLC

VARIABLES
    pc,           \* position of the program
    numPages,     \* len(page_types) selected in the multiselect
    run_axe,      \* the run_axe_tests checkbox / run_axe parameter
    idx,          \* index of the target being audited (1 = Global SSO login)
    numTargets,   \* number of targets of the batch
    results,      \* the batch's list of result records
    r_lh,         \* outcome of the Lighthouse request of the current target
    r_w,          \* outcome of the WAVE request of the current target
    lh_val,       \* run_audit local (tenths)
    err,          \* run_audit local
    con,          \* run_audit local
    weights,      \* calculate_weighted_score local (tenths), after the axe switch
    result,       \* return value of run_audit (None before it returns)
    rec_args,     \* arguments of the generate_recommendations call (None before it)
    recommendations, \* return value of generate_recommendations (None before it)
    retries,      \* run_axe_test parameter
    attempt,      \* run_axe_test loop variable
    driver,       \* run_axe_test local: None or the session it holds
    ret,          \* return value of run_axe_test, pending through finally
    violations,   \* run_axe_test local: the engine's violation list
    sessions,     \* per browser session ever acquired: how often quit was called
    backoffs,     \* number of time.sleep(1) backoffs taken
    attemptLog    \* per attempt of this run_axe_test call: "ok" or "failed"

vars == <<pc, numPages, run_axe, idx, numTargets, results, r_lh, r_w, lh_val,
          err, con, weights, result, rec_args, recommendations, retries, attempt,
          driver, ret, violations, sessions, backoffs, attemptLog>>

auditVars == <<r_lh, r_w, lh_val, err, con, weights, result, rec_args, recommendations>>
batchVars == <<numPages, run_axe, idx, numTargets, results>>
axeVars == <<retries, attempt, driver, ret, violations, sessions, backoffs, attemptLog>>

----------------------------------------------------------------------------
(* Bounds of the model *)

MaxViolations == 6
MaxRetries == 2
MaxPages == 1
MaxErrors == 5
MaxContrast == 2
MaxCritical == 2
MaxSerious == 2

(* Program constants *)

DefaultRetries == 2
ErrorLimit == 120
DetailsLimit == 5

----------------------------------------------------------------------------
(* Values *)

None == <<>>
Some(x) == <<x>>

Min(a, b) == IF a < b THEN a ELSE b
Max(a, b) == IF a > b THEN a ELSE b

\* s[:n]
Take(s, n) == SubSeq(s, 1, Min(Len(s), n))

\* Python truthiness of an optional string: None and "" are false
Truthy(e) == e # None /\ e[1] # <<>>

Impacts == {"critical", "serious", "moderate", "minor"}
\* "null": the impact key is absent or JSON null, v.get("impact") is None
ImpactValues == Impacts \cup {"null"}

\* the string of n characters c
RECURSIVE Repeat(_, _)
Repeat(c, n) == IF n = 0 THEN <<>> ELSE Append(Repeat(c, n - 1), c)

\* str(exc) of the exceptions these calls raise is never empty (selenium's
\* "Message: ...", RuntimeError of a truthy error text)
ShortMsg == <<"t", "i", "m", "e", "o", "u", "t">>
LongMsg == Repeat("x", ErrorLimit + 1)

----------------------------------------------------------------------------
(* run_axe_test: the rule engine invoker *)

Violation == [id : {"r1"}, impact : ImpactValues]

\* the sequences over S of length at most n
RECURSIVE SeqsUpTo(_, _)
SeqsUpTo(S, n) ==
    IF n = 0 THEN {<<>>}
    ELSE LET shorter == SeqsUpTo(S, n - 1)
         IN  shorter \cup {Append(p, x) : p \in shorter, x \in S}

\* sum(1 for v in violations if v.get("impact") == impact)
RECURSIVE CountImpact(_, _)
CountImpact(vs, impact) ==
    IF vs = <<>> THEN 0
    ELSE (IF Head(vs).impact = impact THEN 1 ELSE 0) + CountImpact(Tail(vs), impact)

\* mutant of SuccessReading: the severity counts taken over the capped sample
SuccessReadingFromSample(vs) ==
    [total_violations |-> Len(vs),
     critical |-> CountImpact(Take(vs, DetailsLimit), "critical"),
     serious |-> CountImpact(Take(vs, DetailsLimit), "serious"),
     moderate |-> CountImpact(Take(vs, DetailsLimit), "moderate"),
     minor |-> CountImpact(Take(vs, DetailsLimit), "minor"),
     violations_details |-> Take(vs, DetailsLimit),
     error |-> None]

\* the dict returned on success
SuccessReading(vs) ==
    [total_violations |-> Len(vs),
     critical |-> CountImpact(vs, "critical"),
     serious |-> CountImpact(vs, "serious"),
     moderate |-> CountImpact(vs, "moderate"),
     minor |-> CountImpact(vs, "minor"),
     violations_details |-> Take(vs, DetailsLimit),
     error |-> None]

\* the dict returned when the last attempt raised exc
ErrorReading(msg) ==
    [total_violations |-> 0,
     critical |-> 0,
     serious |-> 0,
     moderate |-> 0,
     minor |-> 0,
     violations_details |-> <<>>,
     error |-> Some(Take(msg, ErrorLimit))]

\* violations = results.get("violations", []) if isinstance(results, dict) else []
ViolationsOf(out) == IF out.kind = "violations" THEN out.list ELSE <<>>

\* what execute_async_script can do: raise (kind "raise"), or hand back the
\* callback's value: {error: msg}, an object with a violations list, or
\* anything else (not a dict, or a dict without "violations")
EngineOutcomes(msgs, lists) ==
    {[kind |-> k, msg |-> m, list |-> <<>>] : k \in {"raise", "error"}, m \in msgs}
    \cup {[kind |-> "violations", msg |-> <<>>, list |-> l] : l \in lists}
    \cup {[kind |-> "other", msg |-> <<>>, list |-> <<>>]}

\* except Exception as exc: the last attempt returns the error reading, an
\* earlier one sleeps; control then passes to the finally clause
Raise(msg) ==
    /\ attemptLog' = Append(attemptLog, "failed")
    /\ IF attempt = retries
         THEN ret' = Some(ErrorReading(msg)) /\ backoffs' = backoffs
         ELSE ret' = None /\ backoffs' = backoffs + 1
    /\ pc' = "axe_finally"

\* driver = None; try: driver = build_driver()
BuildDriver(msgs) ==
    /\ pc = "axe_attempt"
    /\ \/ /\ sessions' = Append(sessions, 0)
          /\ driver' = Some(Len(sessions) + 1)
          /\ pc' = "axe_get"
          /\ UNCHANGED <<ret, backoffs, attemptLog>>
       \/ /\ \E m \in msgs : Raise(m)
          /\ UNCHANGED <<sessions, driver>>
    /\ UNCHANGED <<retries, attempt, violations, batchVars, auditVars>>

\* driver.get(url); time.sleep(3)
Navigate(msgs) ==
    /\ pc = "axe_get"
    /\ \/ /\ pc' = "axe_inject"
          /\ UNCHANGED <<ret, backoffs, attemptLog>>
       \/ \E m \in msgs : Raise(m)
    /\ UNCHANGED <<retries, attempt, driver, violations, sessions, batchVars, auditVars>>

\* driver.execute_script(<inject axe.min.js>); time.sleep(2)
Inject(msgs) ==
    /\ pc = "axe_inject"
    /\ \/ /\ pc' = "axe_run"
          /\ UNCHANGED <<ret, backoffs, attemptLog>>
       \/ \E m \in msgs : Raise(m)
    /\ UNCHANGED <<retries, attempt, driver, violations, sessions, batchVars, auditVars>>

\* results = driver.execute_async_script(...), the error check, the counting
\* and the return statement (whose value waits for the finally clause)
RunAxe(outs) ==
    /\ pc = "axe_run"
    /\ \E out \in outs :
         IF out.kind \in {"raise", "error"}
           THEN Raise(out.msg) /\ UNCHANGED violations
           ELSE /\ violations' = ViolationsOf(out)
                /\ ret' = Some(SuccessReading(ViolationsOf(out)))
                /\ attemptLog' = Append(attemptLog, "ok")
                /\ pc' = "axe_finally"
                /\ UNCHANGED backoffs
    /\ UNCHANGED <<retries, attempt, driver, sessions, batchVars, auditVars>>

\* mutant of QuitNeeded: the session is quit in the exception path only
QuitNeededAfterFailure == driver # None /\ attemptLog[Len(attemptLog)] = "failed"

\* if driver:
QuitNeeded == driver # None

\* leaving the finally clause normally: the pending return happens, or the
\* loop goes to its next iteration (driver = None)
AfterFinally ==
    IF ret # None
      THEN pc' = "axe_return" /\ UNCHANGED <<attempt, driver, violations>>
      ELSE /\ attempt' = attempt + 1
           /\ driver' = None
           /\ violations' = <<>>
           /\ pc' = "axe_attempt"

\* finally: if driver: driver.quit()  -- quit returns
Finally ==
    /\ pc = "axe_finally"
    /\ IF QuitNeeded
         THEN sessions' = [sessions EXCEPT ![driver[1]] = @ + 1]
         ELSE UNCHANGED sessions
    /\ AfterFinally
    /\ UNCHANGED <<retries, ret, backoffs, attemptLog, batchVars, auditVars>>

\* finally: driver.quit() raises: the exception replaces the pending return
\* or retry and leaves run_axe_test (and its callers, none of which catch it)
QuitRaises ==
    /\ pc = "axe_finally"
    /\ QuitNeeded
    /\ sessions' = [sessions EXCEPT ![driver[1]] = @ + 1]
    /\ pc' = "raised"
    /\ UNCHANGED <<retries, attempt, driver, ret, violations, backoffs, attemptLog,
                   batchVars, auditVars>>

----------------------------------------------------------------------------
(* run_axe_test(url, retries) called on its own *)

AxeMsgs == {ShortMsg, LongMsg}
\* two violations of one impact reported by different rules, in either order
TieLists ==
    {<<[id |-> a, impact |-> "critical"], [id |-> b, impact |-> "critical"]>> :
        a, b \in {"r1", "r2"}}
AxeLists == SeqsUpTo(Violation, MaxViolations) \cup TieLists

InitAxe ==
    /\ pc = "axe_attempt"
    /\ numPages = 0 /\ run_axe = TRUE /\ idx = 0 /\ numTargets = 0 /\ results = <<>>
    /\ r_lh = None /\ r_w = None /\ lh_val = 0 /\ err = 0 /\ con = 0
    /\ weights = None /\ result = None
    /\ rec_args = None /\ recommendations = None
    /\ retries \in 1..MaxRetries
    /\ attempt = 1
    /\ driver = None /\ ret = None /\ violations = <<>>
    /\ sessions = <<>> /\ backoffs = 0 /\ attemptLog = <<>>

AxeOutcomes == EngineOutcomes(AxeMsgs, AxeLists)

NextAxe ==
    \/ BuildDriver(AxeMsgs)
    \/ Navigate(AxeMsgs)
    \/ Inject(AxeMsgs)
    \/ RunAxe(AxeOutcomes)
    \/ Finally
    \/ QuitRaises

SpecAxe == InitAxe /\ [][NextAxe]_vars

----------------------------------------------------------------------------
(* Scoring *)

\* int(value) if value is not None else 0
safe_int(value) == IF value = None THEN 0 ELSE value[1]

\* mutant of calculate_component_scores: a critical violation costs 15 points
calculate_component_scores_critical15(lh_pct, wave_errors, wave_contrast, axe_critical, axe_serious) ==
    [lh_score |-> lh_pct,
     wave_score |-> Max(0, 1000 - ((wave_errors * 12) + (wave_contrast * 5))),
     axe_score |-> Max(0, 1000 - ((axe_critical * 150) + (axe_serious * 50)))]

\* mutant of calculate_component_scores: the penalties are not floored at 0
calculate_component_scores_unfloored(lh_pct, wave_errors, wave_contrast, axe_critical, axe_serious) ==
    [lh_score |-> lh_pct,
     wave_score |-> 1000 - ((wave_errors * 12) + (wave_contrast * 5)),
     axe_score |-> 1000 - ((axe_critical * 100) + (axe_serious * 50))]

\* mutant of calculate_component_scores: critical violations are not penalized
calculate_component_scores_serious_only(lh_pct, wave_errors, wave_contrast, axe_critical, axe_serious) ==
    [lh_score |-> lh_pct,
     wave_score |-> Max(0, 1000 - ((wave_errors * 12) + (wave_contrast * 5))),
     axe_score |-> Max(0, 1000 - (axe_serious * 50))]

\* lh_score, wave_score, axe_score in tenths: the penalties 1.2 and 0.5 per
\* WAVE error and contrast issue are 12 and 5 tenths, 10 and 5 per critical
\* and serious violation are 100 and 50 tenths
calculate_component_scores(lh_pct, wave_errors, wave_contrast, axe_critical, axe_serious) ==
    LET wave_penalty == (safe_int(Some(wave_errors)) * 12) + (safe_int(Some(wave_contrast)) * 5)
        axe_penalty == (safe_int(Some(axe_critical)) * 100) + (safe_int(Some(axe_serious)) * 50)
    IN  [lh_score |-> lh_pct,
         wave_score |-> Max(0, 1000 - wave_penalty),
         axe_score |-> Max(0, 1000 - axe_penalty)]

\* mutant of AppliedWeights: the axe weight is kept when axe is unavailable
AppliedWeightsNominal(axe_available) ==
    [lighthouse |-> 4, wave |-> 3, axe |-> 3]

\* the weights dict (tenths) after "if not axe_available: weights['axe'] = 0.0"
AppliedWeights(axe_available) ==
    [lighthouse |-> 4, wave |-> 3, axe |-> IF axe_available THEN 3 ELSE 0]

\* round(n / d, 1) for a value of n / d tenths, n >= 0, d > 0.  Away from a
\* decimal tie the float result is the nearest tenth; on an exact tie
\* (x.x5) the binary float of the weighted sum lies on either side of the
\* tie depending on the operands, so both neighbours are possible.
Round1(n, d) ==
    LET q == n \div d
        r == n % d
    IN  IF 2 * r < d THEN {q}
        ELSE IF 2 * r > d THEN {q + 1}
        ELSE {q, q + 1}

\* the values calculate_weighted_score can return (tenths)
calculate_weighted_score(lh_score, wave_score, axe_score, axe_available) ==
    LET w == AppliedWeights(axe_available)
        total_weight == w.lighthouse + w.wave + w.axe
    IN  IF total_weight = 0 THEN {0}
        ELSE Round1((lh_score * w.lighthouse) + (wave_score * w.wave)
                      + (axe_score * w.axe), total_weight)

\* a recommendation string: its text without the leading pictograph, and the
\* count the f-string puts into it ("{}" in text; 0 when it has none)
Line(text, n) == [text |-> text, n |-> n]

AxeUnstableLine == Line("Axe-core unstable: results not included in score", 0)
DefaultLine == Line("No major issues detected", 0)
BandTexts ==
    {"ACTION REQUIRED: Critical barriers present",
     "PLAN: Schedule fixes in next sprint",
     "MAINTAIN: Monitor for regressions"}

\* mutant of generate_recommendations: the score band is appended first
generate_recommendations_band_first(score, wave_errors, contrast, axe_critical, axe_serious, axe_error) ==
    LET appended ==
            (IF score < 600 THEN <<Line("ACTION REQUIRED: Critical barriers present", 0)>>
             ELSE IF score < 800 THEN <<Line("PLAN: Schedule fixes in next sprint", 0)>>
             ELSE IF score >= 900 THEN <<Line("MAINTAIN: Monitor for regressions", 0)>>
             ELSE <<>>)
            \o (IF Truthy(axe_error) THEN <<AxeUnstableLine>> ELSE <<>>)
            \o (IF axe_critical > 0
                  THEN <<Line("CRITICAL: Fix {} critical violations (axe-core)", axe_critical)>>
                  ELSE <<>>)
            \o (IF axe_serious > 0
                  THEN <<Line("HIGH: Resolve {} serious violations (axe-core)", axe_serious)>>
                  ELSE <<>>)
            \o (IF contrast > 10 THEN <<Line("HIGH: Fix {} contrast issues (WCAG AA)", contrast)>>
                ELSE IF contrast > 0 THEN <<Line("MEDIUM: Improve {} contrast ratios", contrast)>>
                ELSE <<>>)
            \o (IF wave_errors > 20
                  THEN <<Line("HIGH: {} accessibility errors detected", wave_errors)>>
                ELSE IF wave_errors > 5
                  THEN <<Line("MEDIUM: {} errors need attention", wave_errors)>>
                ELSE <<>>)
    IN  IF appended # <<>> THEN appended ELSE <<DefaultLine>>

\* mutant of generate_recommendations: the last band starts at 80, not at 90
generate_recommendations_no_gap(score, wave_errors, contrast, axe_critical, axe_serious, axe_error) ==
    LET appended ==
            (IF Truthy(axe_error) THEN <<AxeUnstableLine>> ELSE <<>>)
            \o (IF axe_critical > 0
                  THEN <<Line("CRITICAL: Fix {} critical violations (axe-core)", axe_critical)>>
                  ELSE <<>>)
            \o (IF axe_serious > 0
                  THEN <<Line("HIGH: Resolve {} serious violations (axe-core)", axe_serious)>>
                  ELSE <<>>)
            \o (IF contrast > 10 THEN <<Line("HIGH: Fix {} contrast issues (WCAG AA)", contrast)>>
                ELSE IF contrast > 0 THEN <<Line("MEDIUM: Improve {} contrast ratios", contrast)>>
                ELSE <<>>)
            \o (IF wave_errors > 20
                  THEN <<Line("HIGH: {} accessibility errors detected", wave_errors)>>
                ELSE IF wave_errors > 5
                  THEN <<Line("MEDIUM: {} errors need attention", wave_errors)>>
                ELSE <<>>)
            \o (IF score < 600 THEN <<Line("ACTION REQUIRED: Critical barriers present", 0)>>
                ELSE IF score < 800 THEN <<Line("PLAN: Schedule fixes in next sprint", 0)>>
                ELSE <<Line("MAINTAIN: Monitor for regressions", 0)>>)
    IN  IF appended # <<>> THEN appended ELSE <<DefaultLine>>

\* the list of recommendation strings (appended: the local recommendations),
\* in the order of the appends; score in tenths (60, 80 and 90 are 600, 800
\* and 900)
generate_recommendations(score, wave_errors, contrast, axe_critical, axe_serious, axe_error) ==
    LET appended ==
            (IF Truthy(axe_error) THEN <<AxeUnstableLine>> ELSE <<>>)
            \o (IF axe_critical > 0
                  THEN <<Line("CRITICAL: Fix {} critical violations (axe-core)", axe_critical)>>
                  ELSE <<>>)
            \o (IF axe_serious > 0
                  THEN <<Line("HIGH: Resolve {} serious violations (axe-core)", axe_serious)>>
                  ELSE <<>>)
            \o (IF contrast > 10 THEN <<Line("HIGH: Fix {} contrast issues (WCAG AA)", contrast)>>
                ELSE IF contrast > 0 THEN <<Line("MEDIUM: Improve {} contrast ratios", contrast)>>
                ELSE <<>>)
            \o (IF wave_errors > 20
                  THEN <<Line("HIGH: {} accessibility errors detected", wave_errors)>>
                ELSE IF wave_errors > 5
                  THEN <<Line("MEDIUM: {} errors need attention", wave_errors)>>
                ELSE <<>>)
            \o (IF score < 600 THEN <<Line("ACTION REQUIRED: Critical barriers present", 0)>>
                ELSE IF score < 800 THEN <<Line("PLAN: Schedule fixes in next sprint", 0)>>
                ELSE IF score >= 900 THEN <<Line("MAINTAIN: Monitor for regressions", 0)>>
                ELSE <<>>)
    IN  IF appended # <<>> THEN appended ELSE <<DefaultLine>>

\* generate_recommendations(score, err, con, axe_critical, axe_serious, axe_error)
RecArgs(score, wave_errors, contrast, axe_critical, axe_serious, axe_error) ==
    [score |-> score, wave_errors |-> wave_errors, contrast |-> contrast,
     axe_critical |-> axe_critical, axe_serious |-> axe_serious, axe_error |-> axe_error]

\* the call of generate_recommendations with the arguments a
CallRecommendations(a) ==
    generate_recommendations(a.score, a.wave_errors, a.contrast,
                             a.axe_critical, a.axe_serious, a.axe_error)

----------------------------------------------------------------------------
(* run_audit *)

\* outcomes of requests.get(lh_api, timeout=45) and the decoding of its body;
\* score is the accessibility score in hundredths (0.9 is 90), None if absent
LhResponses(scores) ==
    {[outcome |-> o, score |-> None] : o \in {"exception", "non200", "badjson", "noscore"}}
    \cup {[outcome |-> "ok", score |-> Some(v)] : v \in scores}

\* outcomes of requests.get(wave_api, timeout=35); a count is None when its
\* category or field is missing from the body
WaveResponses(errs, cons) ==
    {[outcome |-> o, error |-> None, contrast |-> None] : o \in {"exception", "non200", "badjson"}}
    \cup {[outcome |-> "ok", error |-> e, contrast |-> c] :
            e \in {None} \cup {Some(x) : x \in errs},
            c \in {None} \cup {Some(x) : x \in cons}}

\* the locals of a new run_audit call
EnterRunAudit ==
    /\ lh_val' = 0 /\ err' = 0 /\ con' = 0
    /\ r_lh' = None /\ r_w' = None /\ weights' = None /\ result' = None
    /\ rec_args' = None /\ recommendations' = None
    /\ retries' = DefaultRetries /\ attempt' = 1 /\ driver' = None /\ ret' = None
    /\ violations' = <<>> /\ backoffs' = 0 /\ attemptLog' = <<>>
    /\ pc' = "lighthouse"

\* === LIGHTHOUSE ===: lh_val is set only from a 200 response whose body
\* carries a score; every failure leaves it at its initial 0.0
Lighthouse(responses) ==
    /\ pc = "lighthouse"
    /\ \E r \in responses :
         /\ r_lh' = Some(r)
         /\ lh_val' = IF r.outcome = "ok" THEN r.score[1] * 10 ELSE lh_val
    /\ pc' = "wave"
    /\ UNCHANGED <<r_w, err, con, weights, result, rec_args, recommendations,
                   batchVars, axeVars>>

\* mutant of Wave: run_axe_test(url) is entered whatever run_axe is
WaveThenAxe(responses) ==
    /\ pc = "wave"
    /\ \E r \in responses :
         /\ r_w' = Some(r)
         /\ err' = IF r.outcome = "ok" THEN safe_int(r.error) ELSE err
         /\ con' = IF r.outcome = "ok" THEN safe_int(r.contrast) ELSE con
    /\ pc' = "axe_attempt"
    /\ UNCHANGED <<r_lh, lh_val, weights, result, rec_args, recommendations,
                   batchVars, axeVars>>

\* === WAVE ===: err and con are set only from a 200 response; then, with
\* run_axe, run_axe_test(url) is entered (its locals are those EnterRunAudit
\* prepared: retries at its default, attempt 1)
Wave(responses) ==
    /\ pc = "wave"
    /\ \E r \in responses :
         /\ r_w' = Some(r)
         /\ err' = IF r.outcome = "ok" THEN safe_int(r.error) ELSE err
         /\ con' = IF r.outcome = "ok" THEN safe_int(r.contrast) ELSE con
    /\ pc' = IF run_axe THEN "axe_attempt" ELSE "score"
    /\ UNCHANGED <<r_lh, lh_val, weights, result, rec_args, recommendations,
                   batchVars, axeVars>>

\* run_audit's locals after the === AXE-CORE === block
AxeLocals ==
    IF run_axe
      THEN [axe_critical |-> ret[1].critical, axe_serious |-> ret[1].serious,
            axe_total |-> ret[1].total_violations, axe_error |-> ret[1].error]
      ELSE [axe_critical |-> 0, axe_serious |-> 0, axe_total |-> 0, axe_error |-> None]

\* the record run_audit returns; " | ".join(recommendations) keeps the
\* strings and their order, the field holds them as the list
AuditResult(score, lh_score, axe, recs) ==
    [URL |-> idx,
     Score |-> score,
     Lighthouse |-> lh_score,
     WaveErrors |-> err,
     ContrastIssues |-> con,
     AxeCritical |-> axe.axe_critical,
     AxeSerious |-> axe.axe_serious,
     AxeTotalViolations |-> axe.axe_total,
     AxeError |-> IF Truthy(axe.axe_error) THEN axe.axe_error[1] ELSE <<>>,
     Recommendations |-> recs]

\* the rest of run_audit: the axe locals, the component scores, the weighted
\* score, the recommendations and the result record
Score ==
    /\ pc \in {"axe_return", "score"}
    /\ LET axe == AxeLocals
           c == calculate_component_scores(lh_val, err, con, axe.axe_critical, axe.axe_serious)
           axe_available == ~Truthy(axe.axe_error)
       IN  /\ weights' = Some(AppliedWeights(axe_available))
           /\ \E score \in calculate_weighted_score(c.lh_score, c.wave_score,
                                                    c.axe_score, axe_available) :
                LET a == RecArgs(score, err, con, axe.axe_critical,
                                 axe.axe_serious, axe.axe_error)
                IN  /\ rec_args' = Some(a)
                    /\ recommendations' = Some(CallRecommendations(a))
                    /\ result' = Some(AuditResult(score, c.lh_score, axe,
                                                  CallRecommendations(a)))
    /\ pc' = "audit_return"
    /\ UNCHANGED <<r_lh, r_w, lh_val, err, con, batchVars, axeVars>>

----------------------------------------------------------------------------
(* The "Start Audit" handler *)

\* if not page_types: warning; else results = [] and the first run_audit
\* (the Global SSO login); every selected page type has a URL in COUNTRIES
StartAudit ==
    /\ pc = "idle"
    /\ IF numPages = 0
         THEN /\ pc' = "done"
              /\ UNCHANGED <<idx, numTargets, results, auditVars, axeVars>>
         ELSE /\ numTargets' = numPages + 1
              /\ idx' = 1
              /\ results' = <<>>
              /\ EnterRunAudit
              /\ UNCHANGED sessions
    /\ UNCHANGED <<numPages, run_axe>>

\* results.append(run_audit(...)); current += 1; the next target or the end
AppendResult ==
    /\ pc = "audit_return"
    /\ results' = Append(results, result[1])
    /\ IF idx < numTargets
         THEN idx' = idx + 1 /\ EnterRunAudit
         ELSE /\ pc' = "done"
              /\ UNCHANGED <<idx, auditVars, retries, attempt, driver, ret,
                             violations, backoffs, attemptLog>>
    /\ UNCHANGED <<numPages, run_axe, numTargets, sessions>>

BatchMsgs == {ShortMsg}
BatchLists ==
    {<<>>,
     <<[id |-> "r1", impact |-> "serious"]>>,
     <<[id |-> "r1", impact |-> "critical"], [id |-> "r1", impact |-> "null"]>>}

BatchOutcomes == EngineOutcomes(BatchMsgs, BatchLists)
\* the batch is run on a sample of the provider outcomes: a request that
\* raises, and a complete 200 response
BatchLhResponses == {r \in LhResponses({90}) : r.outcome \in {"exception", "ok"}}
BatchWaveResponses ==
    {r \in WaveResponses({5}, {2}) :
        r.outcome = "exception" \/ (r.error # None /\ r.contrast # None)}

Init ==
    /\ pc = "idle"
    /\ numPages \in 0..MaxPages
    /\ run_axe \in BOOLEAN
    /\ idx = 0 /\ numTargets = 0 /\ results = <<>>
    /\ r_lh = None /\ r_w = None /\ lh_val = 0 /\ err = 0 /\ con = 0
    /\ weights = None /\ result = None
    /\ rec_args = None /\ recommendations = None
    /\ retries = DefaultRetries /\ attempt = 1
    /\ driver = None /\ ret = None /\ violations = <<>>
    /\ sessions = <<>> /\ backoffs = 0 /\ attemptLog = <<>>

Next ==
    \/ StartAudit
    \/ Lighthouse(BatchLhResponses)
    \/ Wave(BatchWaveResponses)
    \/ BuildDriver(BatchMsgs)
    \/ Navigate(BatchMsgs)
    \/ Inject(BatchMsgs)
    \/ RunAxe(BatchOutcomes)
    \/ Finally
    \/ QuitRaises
    \/ Score
    \/ AppendResult

Spec == Init /\ [][Next]_vars

----------------------------------------------------------------------------
(* run_audit(url, page_type, country, deploy_version, run_axe) called once *)

AuditScores == {0, 57, 90, 100}
AuditErrors == (0..MaxErrors) \cup {84}
AuditContrast == (0..MaxContrast) \cup {11}

\* c critical, s serious and o moderate violations
ListOf(c, s, o) ==
    Repeat([id |-> "r1", impact |-> "critical"], c)
    \o Repeat([id |-> "r1", impact |-> "serious"], s)
    \o Repeat([id |-> "r1", impact |-> "moderate"], o)

AuditLists ==
    {ListOf(c, s, o) : c \in 0..MaxCritical, s \in 0..MaxSerious, o \in 0..1}
    \cup {ListOf(10, 1, 0)}

AuditOutcomes == EngineOutcomes(BatchMsgs, AuditLists)
AuditLhResponses == LhResponses(AuditScores)
AuditWaveResponses == WaveResponses(AuditErrors, AuditContrast)

InitAudit ==
    /\ pc = "lighthouse"
    /\ numPages = 0
    /\ run_axe \in BOOLEAN
    /\ idx = 1 /\ numTargets = 1 /\ results = <<>>
    /\ r_lh = None /\ r_w = None /\ lh_val = 0 /\ err = 0 /\ con = 0
    /\ weights = None /\ result = None
    /\ rec_args = None /\ recommendations = None
    /\ retries = DefaultRetries /\ attempt = 1
    /\ driver = None /\ ret = None /\ violations = <<>>
    /\ sessions = <<>> /\ backoffs = 0 /\ attemptLog = <<>>

NextAudit ==
    \/ Lighthouse(AuditLhResponses)
    \/ Wave(AuditWaveResponses)
    \/ BuildDriver(BatchMsgs)
    \/ Navigate(BatchMsgs)
    \/ Inject(BatchMsgs)
    \/ RunAxe(AuditOutcomes)
    \/ Finally
    \/ QuitRaises
    \/ Score

SpecAudit == InitAudit /\ [][NextAudit]_vars

----------------------------------------------------------------------------
(* generate_recommendations(score, wave_errors, contrast, axe_critical,
   axe_serious, axe_error) called once *)

\* scores (tenths) around the bands, counts around the thresholds; axe_error
\* is None, "" or a message
RecScores == {0, 599, 600, 799, 800, 899, 900, 1000}
RecErrors == {0, 5, 6, 20, 21}
RecContrast == {0, 1, 10, 11}
RecAxeErrors == {None, Some(<<>>), Some(ShortMsg)}

RecInputs ==
    {RecArgs(s, e, c, cr, se, ae) :
        s \in RecScores, e \in RecErrors, c \in RecContrast,
        cr \in 0..MaxCritical, se \in 0..MaxSerious, ae \in RecAxeErrors}

InitRec ==
    /\ pc = "recommend"
    /\ rec_args \in {Some(a) : a \in RecInputs}
    /\ recommendations = None
    /\ numPages = 0 /\ run_axe = FALSE /\ idx = 0 /\ numTargets = 0 /\ results = <<>>
    /\ r_lh = None /\ r_w = None /\ lh_val = 0 /\ err = 0 /\ con = 0
    /\ weights = None /\ result = None
    /\ retries = DefaultRetries /\ attempt = 1
    /\ driver = None /\ ret = None /\ violations = <<>>
    /\ sessions = <<>> /\ backoffs = 0 /\ attemptLog = <<>>

\* the call returns
Recommend ==
    /\ pc = "recommend"
    /\ recommendations' = Some(CallRecommendations(rec_args[1]))
    /\ pc' = "recommended"
    /\ UNCHANGED <<r_lh, r_w, lh_val, err, con, weights, result, rec_args,
                   batchVars, axeVars>>

NextRec == Recommend

SpecRec == InitRec /\ [][NextRec]_vars

----------------------------------------------------------------------------
(* What the claims speak about *)

AtAuditReturn == pc = "audit_return"

\* a source is available when its request ended in a 200 response whose body
\* carries the expected reading; the rule engine when an attempt succeeded
LhAvailable == r_lh # None /\ r_lh[1].outcome = "ok"
WaveAvailable == r_w # None /\ r_w[1].outcome = "ok"
AxeUnavailable == run_axe /\ ret # None /\ Truthy(ret[1].error)

\* number of violations of the engine's list with the given impact
NumImpact(vs, impact) == Cardinality({i \in 1..Len(vs) : vs[i].impact = impact})

\* the component scores the specification prescribes (tenths)
StructuralScore(e, c) == Max(0, 1000 - (12 * e + 5 * c))
RuleEngineScore(critical, serious) == Max(0, 1000 - (100 * critical + 50 * serious))

\* the composite of the available sources under renormalized weights: n / d tenths
ExpectedNumerator ==
    (IF LhAvailable THEN 4 * lh_val ELSE 0)
    + (IF WaveAvailable THEN 3 * StructuralScore(err, con) ELSE 0)
    + (IF AxeUnavailable THEN 0
       ELSE 3 * RuleEngineScore(result[1].AxeCritical, result[1].AxeSerious))
ExpectedDenominator ==
    (IF LhAvailable THEN 4 ELSE 0) + (IF WaveAvailable THEN 3 ELSE 0)
    + (IF AxeUnavailable THEN 0 ELSE 3)

IsRounded(score, n, d) == 2 * d * score - d <= 2 * n /\ 2 * n <= 2 * d * score + d

OpenSessions == {i \in DOMAIN sessions : sessions[i] = 0}

AxeExited == pc \in {"axe_return", "raised"}

----------------------------------------------------------------------------
(* The claims *)

\* C1: whenever some but not all of the three sources are unavailable for a
\* target, the composite is the weighted sum of the available sources only,
\* under the nominal weights renormalized to sum to 1.0 (the unavailable
\* ones weigh 0); with page-quality unavailable, structural score 93 and
\* rule-engine score 95 the composite is 94.0.
C1_Renormalized ==
    (AtAuditReturn /\ run_axe /\ ExpectedDenominator # 0) =>
        /\ IsRounded(result[1].Score, ExpectedNumerator, ExpectedDenominator)
        /\ (~LhAvailable /\ WaveAvailable /\ ~AxeUnavailable
              /\ err = 5 /\ con = 2
              /\ result[1].AxeCritical = 0 /\ result[1].AxeSerious = 1)
             => result[1].Score = 940

\* C2: when all three sources are unavailable the result of run_audit has
\* composite Score 0 and carries a full-degradation flag.
C2_FullDegradation ==
    (AtAuditReturn /\ ~LhAvailable /\ ~WaveAvailable /\ AxeUnavailable) =>
        /\ result[1].Score = 0
        /\ "FullyDegraded" \in DOMAIN result[1]

\* C3: a page-quality or structural-scan request that failed (non-200,
\* exception, body without the reading) contributes nothing to the composite:
\* its default metrics carry weight 0, and a failed structural scan is never
\* scored as zero issues.
C3_FailedSourceNotScored ==
    AtAuditReturn =>
        /\ ~LhAvailable => weights[1].lighthouse = 0
        /\ ~WaveAvailable => weights[1].wave = 0

\* C4: no exception of one target's pipeline leaves the batch loop, the
\* batch ends with exactly one result per target, in input order, and the
\* result of a target whose rule engine failed says so (Axe Error).
C4_BatchIsolation ==
    /\ pc # "raised"
    /\ (pc = "done" /\ numPages > 0) =>
          /\ Len(results) = numTargets
          /\ \A i \in 1..Len(results) : results[i].URL = i
    /\ (AtAuditReturn /\ AxeUnavailable) => result[1].AxeError # <<>>

\* C5: driver.quit is called exactly once on every session an attempt
\* acquired, before the next attempt starts or run_axe_test is left: a
\* session is never quit twice, the only session that can be open is the one
\* the running attempt holds, that one is new (never used by an earlier
\* attempt or target), and none is open outside an attempt.
C5_SessionReleasedOnce ==
    /\ \A i \in DOMAIN sessions : sessions[i] <= 1
    /\ OpenSessions \subseteq
         (IF pc \in {"axe_get", "axe_inject", "axe_run", "axe_finally"} /\ driver # None
            THEN {driver[1]} ELSE {})
    /\ pc \in {"axe_get", "axe_inject", "axe_run"} =>
         /\ driver = Some(Len(sessions))
         /\ sessions[Len(sessions)] = 0

C5_Witness ==
    /\ pc = "done"
    /\ Len(sessions) >= 3
    /\ \A i \in DOMAIN sessions : sessions[i] = 1

\* C6: run_axe_test makes at most `retries` attempts; a failed attempt with
\* attempts remaining is followed by a backoff and a new attempt; the first
\* successful attempt returns an available reading (error None); a reading
\* with a non-empty error is returned only after `retries` failed attempts.
C6_RetryContract ==
    /\ Len(attemptLog) <= retries
    /\ pc = "axe_attempt" =>
          /\ Len(attemptLog) = attempt - 1
          /\ backoffs = attempt - 1
          /\ \A i \in 1..Len(attemptLog) : attemptLog[i] = "failed"
    /\ (AxeExited /\ attemptLog[Len(attemptLog)] = "failed") =>
          Len(attemptLog) = retries
    /\ (AxeExited /\ attemptLog[Len(attemptLog)] = "ok") =>
          /\ pc = "axe_return"
          /\ ret[1].error = None
    /\ (pc = "axe_return" /\ Truthy(ret[1].error)) =>
          /\ Len(attemptLog) = retries
          /\ \A i \in 1..retries : attemptLog[i] = "failed"

\* C7: with all three sources available the composite is
\* 0.4*pageQuality + 0.3*structuralScore + 0.3*ruleEngineScore rounded to one
\* decimal, structuralScore = max(0, 100 - (1.2*errors + 0.5*contrast)) and
\* ruleEngineScore = max(0, 100 - (10*critical + 5*serious)), whatever the
\* moderate and minor counts; 90, 5, 2, 0, 1 give 93.0, 95 and 92.4.
C7_CompositeFormula ==
    (AtAuditReturn /\ LhAvailable /\ WaveAvailable /\ run_axe /\ ~AxeUnavailable) =>
        LET pageQuality == 10 * r_lh[1].score[1]
            errorCount == safe_int(r_w[1].error)
            contrastCount == safe_int(r_w[1].contrast)
            criticalCount == NumImpact(violations, "critical")
            seriousCount == NumImpact(violations, "serious")
            exact == 4 * pageQuality + 3 * StructuralScore(errorCount, contrastCount)
                       + 3 * RuleEngineScore(criticalCount, seriousCount)
        IN  /\ IsRounded(result[1].Score, exact, 10)
            /\ (pageQuality = 900 /\ errorCount = 5 /\ contrastCount = 2
                  /\ criticalCount = 0 /\ seriousCount = 1)
                 => /\ StructuralScore(errorCount, contrastCount) = 930
                    /\ RuleEngineScore(criticalCount, seriousCount) = 950
                    /\ result[1].Score = 924

C7_Witness ==
    /\ AtAuditReturn /\ LhAvailable /\ WaveAvailable /\ run_axe /\ ~AxeUnavailable
    /\ lh_val = 900 /\ err = 5 /\ con = 2
    /\ NumImpact(violations, "critical") = 0
    /\ NumImpact(violations, "serious") = 1
    /\ NumImpact(violations, "moderate") = 1
    /\ result[1].Score = 924

\* C8: a successful reading counts total, critical, serious, moderate and
\* minor over the whole violation list, and its violations_details are the
\* first min(5, n) violations.
C8_CountsOverFullList ==
    (pc = "axe_return" /\ ret[1].error = None) =>
        LET r == ret[1]
            n == Len(violations)
        IN  /\ r.total_violations = n
            /\ r.critical = NumImpact(violations, "critical")
            /\ r.serious = NumImpact(violations, "serious")
            /\ r.moderate = NumImpact(violations, "moderate")
            /\ r.minor = NumImpact(violations, "minor")
            /\ Len(r.violations_details) = Min(5, n)
            /\ \A i \in 1..Len(r.violations_details) : r.violations_details[i] = violations[i]

C8_Witness ==
    /\ pc = "axe_return"
    /\ ret[1].error = None
    /\ Len(violations) = 6
    /\ violations[6].impact = "critical"
    /\ violations[1].impact = "minor"
    /\ ret[1].critical = 1
    /\ Len(ret[1].violations_details) = 5

\* C9: a successful reading puts every violation into exactly one severity
\* bucket, one without impact into minor: the four counts add up to
\* total_violations.
C9_EveryViolationCounted ==
    (pc = "axe_return" /\ ret[1].error = None) =>
        /\ ret[1].critical + ret[1].serious + ret[1].moderate + ret[1].minor
             = ret[1].total_violations
        /\ ret[1].minor = NumImpact(violations, "minor") + NumImpact(violations, "null")

\* C10: the three component scores and the composite Score lie in [0, 100].
C10_ScoresInRange ==
    AtAuditReturn =>
        LET c == calculate_component_scores(lh_val, err, con,
                     AxeLocals.axe_critical, AxeLocals.axe_serious)
        IN  /\ c.lh_score \in 0..1000
            /\ c.wave_score \in 0..1000
            /\ c.axe_score \in 0..1000
            /\ result[1].Score \in 0..1000
            /\ result[1].Lighthouse \in 0..1000

C10_Witness ==
    /\ AtAuditReturn
    /\ err = 84
    /\ run_axe /\ ret[1].critical = 10 /\ ret[1].serious = 1
    /\ ~LhAvailable
    /\ result[1].Score = 0

----------------------------------------------------------------------------
(* The recommendations: what the claims speak about *)

Range(s) == {s[i] : i \in DOMAIN s}

\* the rules of the recommendation list, by the text they append: 1 critical
\* count, 2 serious count, 3 contrast count, 4 error count, 5 composite-score
\* band; 0 is the rule-engine annotation and 6 the default
RuleRank(line) ==
    IF line = AxeUnstableLine THEN 0
    ELSE IF line.text = "CRITICAL: Fix {} critical violations (axe-core)" THEN 1
    ELSE IF line.text = "HIGH: Resolve {} serious violations (axe-core)" THEN 2
    ELSE IF line.text \in {"HIGH: Fix {} contrast issues (WCAG AA)",
                           "MEDIUM: Improve {} contrast ratios"} THEN 3
    ELSE IF line.text \in {"HIGH: {} accessibility errors detected",
                           "MEDIUM: {} errors need attention"} THEN 4
    ELSE IF line.text \in BandTexts THEN 5
    ELSE 6

\* whether the rule of that rank appends a string for the arguments a
RuleFires(k, a) ==
    IF k = 1 THEN a.axe_critical > 0
    ELSE IF k = 2 THEN a.axe_serious > 0
    ELSE IF k = 3 THEN a.contrast > 0
    ELSE IF k = 4 THEN a.wave_errors > 5
    ELSE a.score < 800 \/ a.score >= 900

\* the count the string of the rule of that rank carries
RuleCount(k, a) ==
    IF k = 1 THEN a.axe_critical
    ELSE IF k = 2 THEN a.axe_serious
    ELSE IF k = 3 THEN a.contrast
    ELSE IF k = 4 THEN a.wave_errors
    ELSE 0

ListedRules == 1..5
NoListedRuleFires(a) == \A k \in ListedRules : ~RuleFires(k, a)

Returned == recommendations # None

\* C11 (as stated): generate_recommendations never returns an empty list;
\* the strings of the rules critical count, serious count, contrast count,
\* error count, composite-score band appear in that order; and when none of
\* these rules fires the result is exactly the single default
\* "No major issues detected".
C11_ListedRulesOrDefault ==
    Returned =>
        LET recs == recommendations[1]
            a == rec_args[1]
        IN  /\ recs # <<>>
            /\ \A i, j \in DOMAIN recs :
                 (i < j /\ RuleRank(recs[i]) \in ListedRules
                        /\ RuleRank(recs[j]) \in ListedRules)
                   => RuleRank(recs[i]) < RuleRank(recs[j])
            /\ NoListedRuleFires(a) => recs = <<DefaultLine>>

\* C11 (amended): generate_recommendations never returns an empty list; the
\* rule-engine annotation (appended when axe_error is non-empty) comes first,
\* then the strings of the rules critical count, serious count, contrast
\* count, error count, composite-score band in that order, one string per
\* rule that fires, carrying its count; when none of these rules fires the
\* result is the single default if axe_error is empty and the single
\* annotation otherwise.
C11_AnnotationThenRules ==
    Returned =>
        LET recs == recommendations[1]
            a == rec_args[1]
        IN  /\ recs # <<>>
            /\ \A i, j \in DOMAIN recs : i < j => RuleRank(recs[i]) < RuleRank(recs[j])
            /\ \A k \in ListedRules :
                 /\ RuleFires(k, a) <=> (\E i \in DOMAIN recs : RuleRank(recs[i]) = k)
                 /\ \A i \in DOMAIN recs : RuleRank(recs[i]) = k => recs[i].n = RuleCount(k, a)
            /\ Truthy(a.axe_error) <=> recs[1] = AxeUnstableLine
            /\ (NoListedRuleFires(a) /\ ~Truthy(a.axe_error)) => recs = <<DefaultLine>>
            /\ (NoListedRuleFires(a) /\ Truthy(a.axe_error)) => recs = <<AxeUnstableLine>>

\* the call returned the annotation alone: no listed rule fired
C11_Witness ==
    /\ pc = "recommended"
    /\ NoListedRuleFires(rec_args[1])
    /\ Truthy(rec_args[1].axe_error)
    /\ recommendations[1] = <<AxeUnstableLine>>

\* the critical counts the monotonicity is checked over
MaxCriticalCount == 12

\* C12: increasing the critical count by one, every other input fixed, never
\* increases the rule-engine component score: the score strictly decreases
\* while it is above 0 and stays 0 once the floor is reached; with the rule
\* engine available the composite strictly decreases with it and is
\* unchanged once the rule-engine score is at the floor (the weighted score
\* is then computed from the same three component scores).  Checked for every
\* critical count up to MaxCriticalCount with the page-quality score, the
\* structural counts and the serious count of each audit.
C12_CriticalMonotone ==
    AtAuditReturn =>
        \A k \in 0..MaxCriticalCount :
            LET serious == result[1].AxeSerious
                c0 == calculate_component_scores(lh_val, err, con, k, serious)
                c1 == calculate_component_scores(lh_val, err, con, k + 1, serious)
                w0 == calculate_weighted_score(c0.lh_score, c0.wave_score, c0.axe_score, TRUE)
                w1 == calculate_weighted_score(c1.lh_score, c1.wave_score, c1.axe_score, TRUE)
            IN  /\ c1.axe_score <= c0.axe_score
                /\ c0.axe_score > 0 => c1.axe_score < c0.axe_score
                /\ c0.axe_score = 0 => c1.axe_score = 0
                /\ c0.axe_score > 0 => \A x \in w0, y \in w1 : y < x
                /\ c0.axe_score = 0 => (c1 = c0 /\ w1 = w0)
                /\ (~AxeUnavailable /\ k = result[1].AxeCritical) => result[1].Score \in w0

\* an audit whose rule-engine score is at the floor while the composite is not
C12_Witness ==
    /\ AtAuditReturn /\ run_axe /\ ~AxeUnavailable
    /\ result[1].AxeCritical = 10
    /\ calculate_component_scores(lh_val, err, con, result[1].AxeCritical,
                                  result[1].AxeSerious).axe_score = 0
    /\ result[1].Score > 0

\* the numeric tier of a severity (CRITICAL = 0 first); an absent or null
\* impact is in the lowest tier
SeverityRank(impact) ==
    IF impact = "critical" THEN 0
    ELSE IF impact = "serious" THEN 1
    ELSE IF impact = "moderate" THEN 2
    ELSE 3

\* the order of the rule identifiers
RuleIdRank(id) == IF id = "r1" THEN 1 ELSE 2

\* v may come before w: lower severity rank first, ties by rule identifier
InFindingOrder(v, w) ==
    \/ SeverityRank(v.impact) < SeverityRank(w.impact)
    \/ /\ SeverityRank(v.impact) = SeverityRank(w.impact)
       /\ RuleIdRank(v.id) <= RuleIdRank(w.id)

\* C13: the violations_details of a reading run_axe_test returns are ordered
\* by severity rank ascending (critical first, then serious, moderate,
\* minor), ties by rule identifier, for every violation list of the engine.
C13_DetailsSorted ==
    (pc = "axe_return" /\ ~Truthy(ret[1].error)) =>
        LET details == ret[1].violations_details
        IN  \A i, j \in DOMAIN details : i < j => InFindingOrder(details[i], details[j])

\* C14: when run_axe_test returned a non-empty error, the composite of
\* run_audit is round((0.4 * pageQuality + 0.3 * structuralScore) / 0.7, 1)
\* and is the same for every rule-engine count; the result has Axe Critical,
\* Axe Serious and Axe Total Violations 0 and a non-empty Axe Error; and the
\* first recommendation is "Axe-core unstable: results not included in score".
C14_EngineUnavailable ==
    (AtAuditReturn /\ AxeUnavailable) =>
        /\ IsRounded(result[1].Score, 4 * lh_val + 3 * StructuralScore(err, con), 7)
        /\ \A k \in 0..MaxCriticalCount, s \in 0..MaxSerious :
             LET c == calculate_component_scores(lh_val, err, con, k, s)
             IN  result[1].Score \in
                   calculate_weighted_score(c.lh_score, c.wave_score, c.axe_score, FALSE)
        /\ result[1].AxeCritical = 0
        /\ result[1].AxeSerious = 0
        /\ result[1].AxeTotalViolations = 0
        /\ result[1].AxeError # <<>>
        /\ result[1].Recommendations[1] = AxeUnstableLine

\* page quality 90, 5 errors and 2 contrast issues (structural score 93),
\* rule engine unavailable: (36 + 27.9) / 0.7 = 91.3
C14_Witness ==
    /\ AtAuditReturn /\ AxeUnavailable /\ LhAvailable /\ WaveAvailable
    /\ lh_val = 900 /\ err = 5 /\ con = 2
    /\ result[1].Score = 913
    /\ result[1].Recommendations[1] = AxeUnstableLine

\* the positions inside run_axe_test
AxePositions ==
    {"axe_attempt", "axe_get", "axe_inject", "axe_run", "axe_finally",
     "axe_return", "raised"}

\* C15: when run_audit is called with run_axe = False, run_axe_test is never
\* entered and no browser session is acquired; the rule engine keeps its
\* full weight 0.3 with component score 100, so the composite is
\* round(0.4 * pageQuality + 0.3 * structuralScore + 30, 1), and the result
\* has an empty Axe Error.
C15_EngineSkipped ==
    ~run_axe =>
        /\ pc \notin AxePositions
        /\ sessions = <<>> /\ driver = None
        /\ attemptLog = <<>> /\ ret = None
        /\ AtAuditReturn =>
             /\ weights[1].axe = 3
             /\ IsRounded(result[1].Score,
                          4 * lh_val + 3 * StructuralScore(err, con) + 3 * 1000, 10)
             /\ result[1].AxeError = <<>>

\* page quality 90, 5 errors and 2 contrast issues (structural score 93),
\* rule engine switched off: 36 + 27.9 + 30 = 93.9
C15_Witness ==
    /\ AtAuditReturn /\ ~run_axe /\ LhAvailable /\ WaveAvailable
    /\ lh_val = 900 /\ err = 5 /\ con = 2
    /\ sessions = <<>>
    /\ result[1].Score = 939
    /\ result[1].AxeError = <<>>

\* number of score-band strings in a list of recommendations
NumBandLines(recs) == Cardinality({i \in DOMAIN recs : recs[i].text \in BandTexts})

\* C16: generate_recommendations returns the default list
\* ["No major issues detected"] exactly when axe_error is empty,
\* axe_critical = 0, axe_serious = 0, contrast = 0, wave_errors <= 5 and
\* 80 <= score < 90; for every other input the list does not contain the
\* default string; and the list holds exactly one score-band recommendation
\* when score < 80 or score >= 90, none when 80 <= score < 90.
C16_DefaultExactlyWhenQuiet ==
    Returned =>
        LET recs == recommendations[1]
            a == rec_args[1]
            quiet == /\ ~Truthy(a.axe_error)
                     /\ a.axe_critical = 0 /\ a.axe_serious = 0
                     /\ a.contrast = 0 /\ a.wave_errors <= 5
                     /\ 800 <= a.score /\ a.score < 900
        IN  /\ quiet <=> recs = <<DefaultLine>>
            /\ ~quiet => DefaultLine \notin Range(recs)
            /\ NumBandLines(recs) =
                 IF a.score < 800 \/ a.score >= 900 THEN 1 ELSE 0

\* the call returned the default list for a score in the band without a
\* recommendation
C16_Witness ==
    /\ pc = "recommended"
    /\ recommendations[1] = <<DefaultLine>>
    /\ rec_args[1].score = 899 /\ rec_args[1].wave_errors = 5
    /\ rec_args[1].axe_error = Some(<<>>)

====
